---- MODULE Spec2Model ----
(***************************************************************************)
(* replikate: one invocation of the command line tool (src/src/main.rs).   *)
(*                                                                         *)
(* The state is the invocation's position in run_app (pc), its inputs      *)
(* (the positional arguments, the boolean flags), the part of the          *)
(* filesystem the program touches (the project's directory layout), the    *)
(* values run_app computes (file content, parsed documents, Project), the  *)
(* calls it has made with their results, the Result it returns and what    *)
(* safe_wrapper printed.  The row serialization (src/src/tsv.rs) has its   *)
(* own two variables: the row handed to to_tsv_format and the text it      *)
(* returns.                                                                *)
(*                                                                         *)
(* Strings are sequences of one-character strings.  A path of the layout   *)
(* is kept relative to the project root as a sequence of segments, and is  *)
(* turned into the text the program sees by PathStr.                       *)
(***************************************************************************)
EXTENDS Integers, Sequences, FiniteSets, TLC

VARIABLES pc, args, flags, fs, file_content, yaml_doc, project, calls,
          result, reported, row, tsv

vars == <<pc, args, flags, fs, file_content, yaml_doc, project, calls,
          result, reported, row, tsv>>

(***************************************************************************)
(* Bounds of the model.                                                    *)
(***************************************************************************)
\* longest experiment list of a config document
MaxExps == 2
\* longest config file name the path derivation is applied to (SpecPath)
MaxNameLen == 4

(***************************************************************************)
(* Strings.                                                                *)
(***************************************************************************)
\* characters of the config names of SpecPath: a letter, the dot, the separator
PathChars == {"c", ".", "/"}

StringsOver(alphabet, lo, hi) == UNION {[1..k -> alphabet] : k \in lo..hi}

Contains(s, ch) == \E i \in 1..Len(s) : s[i] = ch

\* str::rfind: the position of the last ch of s (1-based; s contains ch)
RFind(s, ch) ==
    CHOOSE i \in 1..Len(s) : s[i] = ch /\ \A j \in (i+1)..Len(s) : s[j] # ch

\* main.rs:81-86: config[0..index_of_last_dot] when config contains '.',
\* config otherwise.  The search runs over the whole argument.
DerivePath(config) ==
    IF Contains(config, ".")
    THEN SubSeq(config, 1, RFind(config, ".") - 1)
    ELSE config

(***************************************************************************)
(* AppError (main.rs:42-48) and the Ok of Result<(), AppError>.            *)
(* One record shape for all: kind, the path or format argument, and the    *)
(* cause or message.                                                       *)
(***************************************************************************)
Ok == [kind |-> "Ok", path |-> <<>>, info |-> ""]
NoResult == [kind |-> "None", path |-> <<>>, info |-> ""]
MissingArgument(name) == [kind |-> "MissingArgument", path |-> <<>>, info |-> name]
IOError(path, cause) == [kind |-> "IOError", path |-> path, info |-> cause]
ExternalError(arg, msg) == [kind |-> "ExternalError", path |-> arg, info |-> msg]
Parsing(err) == [kind |-> "Parsing", path |-> <<>>, info |-> err]

(***************************************************************************)
(* The filesystem under the project root.                                  *)
(***************************************************************************)
\* experiment names: a plain segment, and a name with a separator in it
\* ("e1/x"), whose directory has logs/e1 as parent
ExpNames == {<<"e1">>, <<"e1", "x">>}

Nodes == {<<>>, <<"src">>, <<"logs">>} \cup {<<"logs">> \o n : n \in ExpNames}

\* none: no entry; dir: a directory; file: a regular file
Kinds == {"none", "dir", "file"}

Parent(t) == SubSeq(t, 1, Len(t) - 1)

Ancestors(t) == {SubSeq(t, 1, k) : k \in 0..(Len(t) - 1)}

IsPrefixOf(a, b) == Len(a) <= Len(b) /\ SubSeq(b, 1, Len(a)) = a

\* an entry lives in a directory
WellFormed(f) == \A t \in Nodes \ {<<>>} : f[t] # "none" => f[Parent(t)] = "dir"

\* Path::join: a separator between base and segment unless base is empty or
\* ends with one
Join(base, seg) ==
    IF base = <<>> THEN <<seg>>
    ELSE IF base[Len(base)] = "/" THEN base \o <<seg>>
    ELSE base \o <<"/", seg>>

RECURSIVE JoinAll(_, _)
JoinAll(base, segs) ==
    IF segs = <<>> THEN base ELSE JoinAll(Join(base, Head(segs)), Tail(segs))

\* the text of the path of node t of a project rooted at path
PathStr(path, t) == JoinAll(path, t)

(***************************************************************************)
(* Tree Builder: create_tree (main.rs:118-155).                            *)
(***************************************************************************)
\* the layout with src forgotten
TargetsNoSrc(p) ==
    <<<<>>, <<"logs">>>> \o
    [i \in 1..Len(p.experiments) |-> <<"logs">> \o p.experiments[i]]

\* the layout of project p in the order create_tree visits it: the root
\* (124), src (130), logs (137), logs/<name> per experiment (144-145)
Targets(p) ==
    <<<<>>, <<"src">>, <<"logs">>>> \o
    [i \in 1..Len(p.experiments) |-> <<"logs">> \o p.experiments[i]]

\* Path::exists with the test dropped: every target is created, present or not
ExistsNever(f, path, t) == FALSE

\* Path::exists with the test of the experiment loop (148) dropped
ExistsOutsideLoop(f, path, t) ==
    /\ Len(t) < 2
    /\ ~(path = <<>> /\ t = <<>>)
    /\ \A a \in Ancestors(t) : f[a] = "dir"
    /\ f[t] # "none"

\* Path::exists (125, 132, 139, 148): the metadata of the path can be read,
\* whatever kind of entry it is.  The empty path names nothing.
Exists(f, path, t) ==
    /\ ~(path = <<>> /\ t = <<>>)
    /\ \A a \in Ancestors(t) : f[a] = "dir"
    /\ f[t] # "none"

\* why the system refuses mkdir of t, "" when it does not: a missing or
\* non-directory ancestor, a taken name, a directory that cannot be
\* written to (t \in deny)
MkdirRefusal(f, path, t, deny) ==
    LET bad == {a \in Ancestors(t) : f[a] # "dir"}
        first == CHOOSE a \in bad : \A b \in bad : Len(a) <= Len(b)
    IN  IF path = <<>> /\ t = <<>> THEN "NotFound"
        ELSE IF bad # {}
             THEN (IF f[first] = "file" THEN "NotADirectory" ELSE "NotFound")
        ELSE IF f[t] # "none" THEN "AlreadyExists"
        ELSE IF t \in deny THEN "PermissionDenied"
        ELSE ""

\* std::fs::create_dir (126, 133, 140, 149) followed by map_err(into_err(..))
\* (119-122): the new filesystem and Ok, or the filesystem as it was and an
\* IOError with the text of the path
create_dir(f, path, t, deny) ==
    LET cause == MkdirRefusal(f, path, t, deny)
    IN  IF cause = ""
        THEN [fs |-> [f EXCEPT ![t] = "dir"], res |-> Ok]
        ELSE [fs |-> f, res |-> IOError(PathStr(path, t), cause)]

\* the targets from the i-th on: skip the ones that exist, create the others,
\* return at the first failure (the ? of 127, 134, 141, 150)
RECURSIVE CreateFrom(_, _, _, _)
CreateFrom(f, p, deny, i) ==
    IF i > Len(Targets(p)) THEN [fs |-> f, res |-> Ok]
    ELSE LET t == Targets(p)[i]
         IN  IF Exists(f, p.path, t)
             THEN CreateFrom(f, p, deny, i + 1)
             ELSE LET r == create_dir(f, p.path, t, deny)
                  IN  IF r.res = Ok THEN CreateFrom(r.fs, p, deny, i + 1) ELSE r

\* create_tree(p) on filesystem f, where the system refuses to create the
\* targets of deny
create_tree(f, p, deny) == CreateFrom(f, p, deny, 1)

(***************************************************************************)
(* The config document and the Project.                                    *)
(***************************************************************************)
ExpSeqs == StringsOver(ExpNames, 0, MaxExps)

\* a document of the config file, as far as the Project schema reads it: its
\* experiment names in order when it satisfies the schema, what is wrong
\* with it otherwise
GoodDocs == {[shape |-> "ok", experiments |-> e] : e \in ExpSeqs}
BadDocs == {[shape |-> s, experiments |-> <<>>] : s \in {"missing_name", "bad_version"}}
Docs == GoodDocs \cup BadDocs

\* what the file holds: text the format parser rejects, or the documents it
\* yields.  Documents after the first are never read (main.rs:87).
Unread == [read |-> FALSE, syntax_ok |-> FALSE, docs |-> <<>>]
Contents ==
    {[read |-> TRUE, syntax_ok |-> FALSE, docs |-> <<>>]} \cup
    {[read |-> TRUE, syntax_ok |-> TRUE, docs |-> d] : d \in {<<>>} \cup {<<x>> : x \in Docs}}

NoProject == [built |-> FALSE, path |-> <<>>, experiments |-> <<>>]

\* Project::from_yaml (model.rs): the Project of a document that satisfies
\* the schema, path unset, or a ParsingError
from_yaml(doc) ==
    IF doc.shape = "ok"
    THEN [err |-> "", project |-> [built |-> TRUE, path |-> <<>>, experiments |-> doc.experiments]]
    ELSE [err |-> doc.shape, project |-> NoProject]

\* Project::set_path (model.rs)
set_path(p, path) == [p EXCEPT !.path = path]

(***************************************************************************)
(* Stage runners git, build, execute, clean (git.rs, build.rs, execute.rs, *)
(* clean.rs): opaque operations returning success or a message.            *)
(***************************************************************************)
Runner(stage) == {Ok, ExternalError(<<>>, stage)}

\* what clean may leave of filesystem f: any entries of the project removed,
\* a removed directory with all that is below it
CleanRemovals(f) ==
    {[t \in Nodes |-> IF t \in R THEN "none" ELSE f[t]] :
        R \in {X \in SUBSET {t \in Nodes : f[t] # "none"} :
                 \A t \in X : \A u \in Nodes : IsPrefixOf(t, u) /\ f[u] # "none" => u \in X}}

(***************************************************************************)
(* run_app (main.rs:62-116) and safe_wrapper (main.rs:50-60).              *)
(***************************************************************************)
FlagNames == {"requirements", "git", "build", "clean", "run"}

\* the config names of an invocation: with an extension, without one, with
\* nothing before the extension, and the current directory
ConfigNames == {<<"c", ".", "y">>, <<"c">>, <<".", "y">>, <<".">>}

config == args[1]

Call(fn, res) == [fn |-> fn, res |-> res]

Init ==
    /\ pc = "args"
    /\ args \in {<<>>} \cup {<<n>> : n \in ConfigNames}
    /\ flags \in SUBSET FlagNames
    /\ fs \in {f \in [Nodes -> Kinds] : WellFormed(f)}
    /\ file_content = Unread
    /\ yaml_doc = <<>>
    /\ project = NoProject
    /\ calls = <<>>
    /\ result = NoResult
    /\ reported = <<>>
    /\ row = <<>>
    /\ tsv = <<>>

\* the statement after each statement of the dispatch, with execute moved
\* before clean
NextStmtRunFirst(stmt) ==
    CASE stmt = "tree" -> "requirements"
      [] stmt = "requirements" -> "git"
      [] stmt = "git" -> "build"
      [] stmt = "build" -> "run"
      [] stmt = "run" -> "clean"
      [] stmt = "clean" -> "retree"
      [] stmt = "retree" -> "return"

\* the statement after each statement of the dispatch (main.rs:91-115)
NextStmt(stmt) ==
    CASE stmt = "tree" -> "requirements"
      [] stmt = "requirements" -> "git"
      [] stmt = "git" -> "build"
      [] stmt = "build" -> "clean"
      [] stmt = "clean" -> "retree"
      [] stmt = "retree" -> "run"
      [] stmt = "run" -> "return"

Goto(stmt) == pc' = stmt /\ UNCHANGED result

\* return Err(e)
Fail(e) == pc' = "returned" /\ result' = e

\* the ? operator with the error dropped: the result of the call is ignored
TryIgnoring(res, stmt) == Goto(stmt)

\* the ? operator (main.rs:91, 101, 104, 107, 108, 112): go on after Ok,
\* return the error as it is otherwise
Try(res, stmt) == IF res = Ok THEN Goto(stmt) ELSE Fail(res)

\* main.rs:63-64: the first positional argument, or MissingArgument
GetConfig ==
    /\ pc = "args"
    /\ IF args = <<>> THEN Fail(MissingArgument("config")) ELSE Goto("open")
    /\ UNCHANGED <<row, tsv, args, flags, fs, file_content, yaml_doc, project, calls, reported>>

\* a config name without '.' is its own project path (main.rs:85): the
\* config file is then the root entry of the layout
ConfigIsRoot == ~Contains(config, ".")

\* how File::open(config) may end, "" for success
OpenOutcomes ==
    IF ConfigIsRoot
    THEN (IF fs[<<>>] = "none" THEN {"NotFound"} ELSE {"", "PermissionDenied"})
    ELSE {"", "NotFound", "PermissionDenied"}

\* main.rs:66-67: open the config file, or IOError with the config name
OpenConfig ==
    /\ pc = "open"
    /\ \E o \in OpenOutcomes :
          IF o = "" THEN Goto("read") ELSE Fail(IOError(config, o))
    /\ UNCHANGED <<row, tsv, args, flags, fs, file_content, yaml_doc, project, calls, reported>>

\* the opened config is a directory: the names made of dots, or a root
\* entry that is a directory
ConfigIsDirectory ==
    \/ \A i \in 1..Len(config) : config[i] = "."
    \/ ConfigIsRoot /\ fs[<<>>] = "dir"

\* main.rs:69-76: read the file line by line, or IOError with the config name
ReadConfig ==
    /\ pc = "read"
    /\ IF ConfigIsDirectory
       THEN Fail(IOError(config, "IsADirectory")) /\ UNCHANGED file_content
       ELSE \/ \E c \in Contents : file_content' = c /\ Goto("parse")
            \/ Fail(IOError(config, "InvalidData")) /\ UNCHANGED file_content
    /\ UNCHANGED <<row, tsv, args, flags, fs, yaml_doc, project, calls, reported>>

\* main.rs:78-79: YamlLoader::load_from_str, its error replaced by an
\* ExternalError with the config name
LoadYaml ==
    /\ pc = "parse"
    /\ IF file_content.syntax_ok
       THEN yaml_doc' = file_content.docs /\ Goto("from_yaml")
       ELSE Fail(ExternalError(config, "Cannot parse as yaml file.")) /\ UNCHANGED yaml_doc
    /\ UNCHANGED <<row, tsv, args, flags, fs, file_content, project, calls, reported>>

\* the error of from_yaml dropped: run_app goes on without a Project
BuildProjectUnchecked ==
    /\ pc = "from_yaml"
    /\ IF yaml_doc = <<>>
       THEN pc' = "panicked" /\ UNCHANGED <<result, project>>
       ELSE LET path == DerivePath(config)
                r == from_yaml(yaml_doc[1])
            IN  IF r.err # ""
                THEN Goto("tree") /\ UNCHANGED project
                ELSE project' = set_path(r.project, path) /\ Goto("tree")
    /\ UNCHANGED <<row, tsv, args, flags, fs, file_content, yaml_doc, calls, reported>>

\* main.rs:81-89: the path, then Project::from_yaml(&yaml_doc[0]) and
\* set_path.  Indexing an empty Vec panics.
BuildProject ==
    /\ pc = "from_yaml"
    /\ IF yaml_doc = <<>>
       THEN pc' = "panicked" /\ UNCHANGED <<result, project>>
       ELSE LET path == DerivePath(config)
                r == from_yaml(yaml_doc[1])
            IN  IF r.err # ""
                THEN Fail(Parsing(r.err)) /\ UNCHANGED project
                ELSE project' = set_path(r.project, path) /\ Goto("tree")
    /\ UNCHANGED <<row, tsv, args, flags, fs, file_content, yaml_doc, calls, reported>>

\* what the system may refuse to create during one call of create_tree:
\* nothing, or one target (the call ends at its first refusal)
Denials == {{}} \cup {{t} : t \in Nodes}

\* create_tree(&project)? at statement stmt
CreateTreeAt(stmt) ==
    /\ pc = stmt
    /\ \E deny \in Denials :
          LET r == create_tree(fs, project, deny)
          IN  /\ fs' = r.fs
              /\ calls' = Append(calls, Call("create_tree", r.res))
              /\ Try(r.res, NextStmt(stmt))
    /\ UNCHANGED <<row, tsv, args, flags, file_content, yaml_doc, project, reported>>

\* main.rs:91
CreateTree == CreateTreeAt("tree")

\* main.rs:93-98: print the requirements when asked to
ListRequirements ==
    /\ pc = "requirements"
    /\ calls' = IF "requirements" \in flags
                THEN Append(calls, Call("requirements", Ok)) ELSE calls
    /\ Goto(NextStmt("requirements"))
    /\ UNCHANGED <<row, tsv, args, flags, fs, file_content, yaml_doc, project, reported>>

\* a stage invoked whether or not its flag was given
StageAtAlways(stmt, flag, stage) ==
    /\ pc = stmt
    /\ \E r \in Runner(stage) :
          /\ calls' = Append(calls, Call(stage, r))
          /\ Try(r, NextStmt(stmt))
    /\ UNCHANGED <<row, tsv, args, flags, fs, file_content, yaml_doc, project, reported>>

\* if c.bool_flag(flag) { stage(&project)?; } for a stage that leaves the
\* layout as it is
StageAt(stmt, flag, stage) ==
    /\ pc = stmt
    /\ IF flag \in flags
       THEN \E r \in Runner(stage) :
               /\ calls' = Append(calls, Call(stage, r))
               /\ Try(r, NextStmt(stmt))
       ELSE Goto(NextStmt(stmt)) /\ UNCHANGED calls
    /\ UNCHANGED <<row, tsv, args, flags, fs, file_content, yaml_doc, project, reported>>

\* main.rs:100-102
Git == StageAt("git", "git", "git")

\* main.rs:103-105
Build == StageAt("build", "build", "build")

\* clean without the tree rebuilt after it
CleanNoRebuild ==
    /\ pc = "clean"
    /\ IF "clean" \in flags
       THEN \E r \in Runner("clean") : \E f \in CleanRemovals(fs) :
               /\ fs' = f
               /\ calls' = Append(calls, Call("clean", r))
               /\ Try(r, NextStmt("retree"))
       ELSE Goto(NextStmt("retree")) /\ UNCHANGED <<fs, calls>>
    /\ UNCHANGED <<row, tsv, args, flags, file_content, yaml_doc, project, reported>>

\* main.rs:106-107: the clean runner when asked to; the block is skipped
\* with its rebuild otherwise
Clean ==
    /\ pc = "clean"
    /\ IF "clean" \in flags
       THEN \E r \in Runner("clean") : \E f \in CleanRemovals(fs) :
               /\ fs' = f
               /\ calls' = Append(calls, Call("clean", r))
               /\ Try(r, NextStmt("clean"))
       ELSE Goto(NextStmt("retree")) /\ UNCHANGED <<fs, calls>>
    /\ UNCHANGED <<row, tsv, args, flags, file_content, yaml_doc, project, reported>>

\* the rebuild after clean left out
RebuildSkipped ==
    /\ pc = "retree"
    /\ Goto(NextStmt("retree"))
    /\ UNCHANGED <<row, tsv, args, flags, fs, file_content, yaml_doc, project, calls, reported>>

\* main.rs:108: the tree rebuilt after clean
Rebuild == CreateTreeAt("retree")

\* main.rs:111-113
Execute == StageAt("run", "run", "execute")

\* main.rs:115
ReturnOk ==
    /\ pc = "return"
    /\ pc' = "returned"
    /\ result' = Ok
    /\ UNCHANGED <<row, tsv, args, flags, fs, file_content, yaml_doc, project, calls, reported>>

\* main.rs:51-59: safe_wrapper prints the error run_app returned, if any
Report ==
    /\ pc = "returned"
    /\ pc' = "exit"
    /\ reported' = IF result # Ok THEN Append(reported, result) ELSE reported
    /\ UNCHANGED <<row, tsv, args, flags, fs, file_content, yaml_doc, project, calls, result>>

Next ==
    \/ GetConfig
    \/ OpenConfig
    \/ ReadConfig
    \/ LoadYaml
    \/ BuildProject
    \/ CreateTree
    \/ ListRequirements
    \/ Git
    \/ Build
    \/ Clean
    \/ Rebuild
    \/ Execute
    \/ ReturnOk
    \/ Report

Spec == Init /\ [][Next]_vars

(***************************************************************************)
(* The path derivation alone, applied to every short config name.         *)
(***************************************************************************)
\* the names a file can be opened under: no separator at the end
FileNames == {n \in StringsOver(PathChars, 1, MaxNameLen) : n[Len(n)] # "/"}

InitPath ==
    /\ pc = "derive"
    /\ args \in {<<n>> : n \in FileNames}
    /\ flags = {}
    /\ fs = [t \in Nodes |-> "none"]
    /\ file_content = Unread
    /\ yaml_doc = <<>>
    /\ project = NoProject
    /\ calls = <<>>
    /\ result = NoResult
    /\ reported = <<>>
    /\ row = <<>>
    /\ tsv = <<>>

\* main.rs:81-89: the path run_app derives from config and assigns
AssignPath ==
    /\ pc = "derive"
    /\ pc' = "derived"
    /\ project' = set_path([NoProject EXCEPT !.built = TRUE], DerivePath(config))
    /\ UNCHANGED <<row, tsv, args, flags, fs, file_content, yaml_doc, calls, result, reported>>

NextPath == AssignPath

SpecPath == InitPath /\ [][NextPath]_vars

(***************************************************************************)
(* The row serialization of src/src/tsv.rs.  A text is a sequence of       *)
(* one-character strings, so that quoting, doubling and joining are        *)
(* computed character by character.                                        *)
(***************************************************************************)
MaxRow == 2
MaxStrLen == 2

Quote == "\""
Tab == "\t"

\* the characters a value is made of: a plain one, the quote, the separator
TsvChars == {"a", Quote, Tab}

TsvStrings == StringsOver(TsvChars, 0, MaxStrLen)

\* sample integers: a negative one, zero, one with two digits
Numbers == {-1, 0, 12}

\* the values of the types that implement TSVSerializable
Values ==
    [k : {"bool"}, n : {0, 1}, s : {<<>>}]
    \cup [k : {"int"}, n : Numbers, s : {<<>>}]
    \cup [k : {"char"}, n : {0}, s : {<<c>> : c \in TsvChars}]
    \cup [k : {"str"}, n : {0}, s : TsvStrings]

Rows == UNION {[1..n -> Values] : n \in 0..MaxRow}

DigitChars == <<"0", "1", "2", "3", "4", "5", "6", "7", "8", "9">>

RECURSIVE Digits(_)
Digits(n) ==
    IF n < 10 THEN <<DigitChars[n + 1]>>
    ELSE Append(Digits(n \div 10), DigitChars[(n % 10) + 1])

\* Display of bool, the integers and char, as to_string gives it
to_string(v) ==
    CASE v.k = "bool" -> IF v.n = 1 THEN <<"t", "r", "u", "e">>
                         ELSE <<"f", "a", "l", "s", "e">>
      [] v.k = "int" -> IF v.n < 0 THEN <<"-">> \o Digits(0 - v.n) ELSE Digits(v.n)
      [] v.k = "char" -> v.s

\* a replacement that leaves the text as it is
replace_nothing(s, from, to) == s

\* str::replace for a one-character pattern
RECURSIVE replace(_, _, _)
replace(s, from, to) ==
    IF s = <<>> THEN <<>>
    ELSE (IF Head(s) = from THEN to ELSE <<Head(s)>>) \o replace(Tail(s), from, to)

\* tsv.rs:33-43: String and &str
str_to_tsv_format(s) == <<Quote>> \o replace(s, Quote, <<Quote, Quote>>) \o <<Quote>>

\* tsv.rs:7-43: the implementation the element's type selects
to_tsv_format(v) ==
    IF v.k = "str" THEN str_to_tsv_format(v.s) ELSE to_string(v)

\* tsv.rs:51-54: the loop over the elements after the first
RECURSIVE PushFrom(_, _, _)
PushFrom(v, i, acc) ==
    IF i > Len(v) THEN acc
    ELSE PushFrom(v, i + 1, (acc \o <<Tab>>) \o to_tsv_format(v[i]))

\* a tab after every element, the last one included
vec_to_tsv_terminated(v) ==
    IF Len(v) # 0 THEN PushFrom(v, 2, to_tsv_format(v[1])) \o <<Tab>> ELSE <<>>

\* tsv.rs:45-59: Vec<T>
vec_to_tsv_format(v) ==
    IF Len(v) # 0 THEN PushFrom(v, 2, to_tsv_format(v[1])) ELSE <<>>

InitTsv ==
    /\ pc = "tsv"
    /\ row \in Rows
    /\ tsv = <<>>
    /\ args = <<>>
    /\ flags = {}
    /\ fs = [t \in Nodes |-> "none"]
    /\ file_content = Unread
    /\ yaml_doc = <<>>
    /\ project = NoProject
    /\ calls = <<>>
    /\ result = NoResult
    /\ reported = <<>>

\* one call of to_tsv_format on the row
Serialize ==
    /\ pc = "tsv"
    /\ pc' = "tsv_done"
    /\ tsv' = vec_to_tsv_format(row)
    /\ UNCHANGED <<row, args, flags, fs, file_content, yaml_doc, project, calls, result, reported>>

NextTsv == Serialize

SpecTsv == InitTsv /\ [][NextTsv]_vars

(***************************************************************************)
(* Properties.                                                             *)
(***************************************************************************)
CallNames == [i \in 1..Len(calls) |-> calls[i].fn]

CallIndexes == 1..Len(calls)

Returned == pc \in {"returned", "exit"}

\* the steps the dispatch contract lists for a set of requested actions
Plan(fl) ==
    <<"create_tree">>
    \o (IF "requirements" \in fl THEN <<"requirements">> ELSE <<>>)
    \o (IF "git" \in fl THEN <<"git">> ELSE <<>>)
    \o (IF "build" \in fl THEN <<"build">> ELSE <<>>)
    \o (IF "clean" \in fl THEN <<"clean", "create_tree">> ELSE <<>>)
    \o (IF "run" \in fl THEN <<"execute">> ELSE <<>>)

\* every target of the project's layout is a directory of f
LayoutPresent(f, p) == \A k \in 1..Len(Targets(p)) : f[Targets(p)[k]] = "dir"

\* C1: whatever flags were given, the steps run_app has performed so far are
\* the first steps of the one fixed order (Tree Builder, requirement
\* listing, fetch, build, clean and a second Tree Builder, execute, each
\* only if requested), and a run that returns Ok has performed them all.
C1_FixedOrder ==
    /\ IsPrefixOf(CallNames, Plan(flags))
    /\ result = Ok => CallNames = Plan(flags)

\* all five actions were requested and all steps succeeded
C1_Witness == result = Ok /\ flags = FlagNames /\ Len(calls) = 7

\* C2: a step that returned a failure is the last step of the invocation,
\* and run_app has returned exactly that error.
C2_FailFast ==
    \A i \in CallIndexes :
        calls[i].res # Ok =>
            /\ i = Len(calls)
            /\ Returned
            /\ result = calls[i].res

\* build failed with clean and execute requested: neither was invoked
C2_Witness ==
    /\ {"build", "clean", "run"} \subseteq flags
    /\ calls # <<>>
    /\ calls[Len(calls)] = Call("build", ExternalError(<<>>, "build"))
    /\ Returned
    /\ result = ExternalError(<<>>, "build")

\* C3: with clean requested, execute is invoked only after clean returned
\* Ok and the create_tree call that follows it returned Ok.
C3_ExecuteAfterClean ==
    \A i \in CallIndexes :
        (calls[i].fn = "execute" /\ "clean" \in flags) =>
            \E j \in 1..(i - 2) :
                /\ calls[j] = Call("clean", Ok)
                /\ calls[j + 1] = Call("create_tree", Ok)

\* clean and execute were both requested and execute was invoked
C3_Witness ==
    /\ {"clean", "run"} \subseteq flags
    /\ \E i \in CallIndexes : calls[i].fn = "execute"

\* run_app is about to call create_tree (main.rs:91, 108)
AtCreateTree == pc \in {"tree", "retree"}

\* C4: wherever run_app calls create_tree, a call that returns Ok is
\* followed, on the filesystem it left, by a call that returns Ok and
\* leaves every entry as it was.
C4_Idempotent ==
    AtCreateTree =>
        \A d1 \in Denials : \A d2 \in Denials :
            LET r1 == create_tree(fs, project, d1)
            IN  r1.res = Ok =>
                    LET r2 == create_tree(r1.fs, project, d2)
                    IN  r2.res = Ok /\ r2.fs = r1.fs

\* the first create_tree of an invocation returned Ok for a Project with
\* experiments
C4_Witness ==
    /\ pc = "requirements"
    /\ calls = <<Call("create_tree", Ok)>>
    /\ project.experiments # <<>>

\* C5: once clean and the create_tree after it have both returned Ok, the
\* root, src, logs and logs/<name> of every experiment are directories.
C5_CleanRestoresScaffold ==
    \A i \in CallIndexes :
        (/\ calls[i] = Call("clean", Ok)
         /\ i + 1 \in CallIndexes
         /\ calls[i + 1] = Call("create_tree", Ok))
        => LayoutPresent(fs, project)

\* C6: wherever run_app calls create_tree: when create_tree returns Ok
\* every target (root, src, logs, logs/<name>) is a directory, so that a
\* target that cannot be made one makes it fail; and when it fails it
\* returns an IOError carrying the path of a target, the targets before it
\* being present and none after it created.
C6_FailureReported ==
    AtCreateTree =>
        \A d \in Denials :
            LET r == create_tree(fs, project, d)
                T == Targets(project)
            IN  IF r.res = Ok
                THEN LayoutPresent(r.fs, project)
                ELSE \E k \in 1..Len(T) :
                        /\ r.res.kind = "IOError"
                        /\ r.res.path = PathStr(project.path, T[k])
                        /\ \A j \in 1..(k - 1) : r.fs[T[j]] # "none"
                        /\ \A j \in (k + 1)..Len(T) : r.fs[T[j]] = fs[T[j]]

\* C7: fetch, build and clean are invoked only after the first create_tree
\* returned Ok, and when execute has been invoked the root, src, logs and
\* every logs/<name> are directories.
C7_TreePresent ==
    \A i \in CallIndexes :
        /\ calls[i].fn \in {"git", "build", "clean", "execute"}
              => calls[1] = Call("create_tree", Ok)
        /\ calls[i].fn = "execute" => LayoutPresent(fs, project)

\* C8: no input drives the invocation into a panic.
C8_NoPanic == pc # "panicked"

\* the text is rejected by the format parser, or its first document
\* violates the Project schema
Malformed(c) == ~c.syntax_ok \/ (c.docs # <<>> /\ c.docs[1].shape # "ok")

\* C9: when the config text is malformed, run_app returns an error of kind
\* Parsing and no Project is produced.
C9_MalformedIsParsing ==
    (file_content.read /\ Malformed(file_content) /\ Returned)
        => (result.kind = "Parsing" /\ ~project.built)

\* the part of a name after its last separator
BaseName(s) == IF Contains(s, "/") THEN SubSeq(s, RFind(s, "/") + 1, Len(s)) ELSE s

\* the part of a name up to and including its last separator
DirPart(s) == IF Contains(s, "/") THEN SubSeq(s, 1, RFind(s, "/")) ELSE <<>>

\* a name cut just before its last '.', unchanged without one
StripExt(s) == IF Contains(s, ".") THEN SubSeq(s, 1, RFind(s, ".") - 1) ELSE s

\* C10: the project path is the config's base name with its final
\* extension removed (with or without the leading directories), so a '.'
\* in a leading directory segment never shortens the path.
C10_PathDerivation ==
    pc = "derived" =>
        project.path \in {StripExt(BaseName(config)),
                          DirPart(config) \o StripExt(BaseName(config))}

\* C11: the path assigned to the Project of a config that was loaded is a
\* non-empty string.
C11_PathNonEmpty == project.built => project.path # <<>>

\* the flag that requests each stage runner
FlagOf(fn) ==
    CASE fn = "git" -> "git"
      [] fn = "build" -> "build"
      [] fn = "clean" -> "clean"
      [] fn = "execute" -> "run"

StageNames == {"git", "build", "clean", "execute"}

\* C12: a stage runner is invoked only if its action was requested, the
\* requirements are listed only if asked for, and a run with no flag that
\* returns Ok has called create_tree once and nothing else.
C12_OnlyRequested ==
    /\ \A i \in CallIndexes :
          /\ calls[i].fn \in StageNames => FlagOf(calls[i].fn) \in flags
          /\ calls[i].fn = "requirements" => "requirements" \in flags
    /\ (flags = {} /\ result = Ok) => calls = <<Call("create_tree", Ok)>>

\* a run with no flag returned Ok after its one create_tree
C12_Witness ==
    /\ flags = {}
    /\ pc = "exit"
    /\ result = Ok
    /\ calls = <<Call("create_tree", Ok)>>

\* C15: as long as no Project has been finalized, no step of the invocation
\* calls create_tree or a stage runner or changes the filesystem; so an
\* invocation that fails before the Project is finalized has called none
\* of them and leaves the filesystem as it found it.
C15_NoEffectBeforeProject ==
    [][(~project'.built) => (calls' = <<>> /\ fs' = fs)]_vars

\* the invocations that fail before the Project is finalized: a missing
\* argument, a file that cannot be opened or read, a syntax error, a
\* schema error (here: the schema error)
C15_Witness ==
    /\ pc = "exit"
    /\ ~project.built
    /\ result.kind = "Parsing"
    /\ reported = <<result>>
    /\ calls = <<>>

\* the directories of the layout of project p
Layout(p) ==
    {<<>>, <<"src">>, <<"logs">>} \cup
    {<<"logs">> \o p.experiments[i] : i \in 1..Len(p.experiments)}

\* C16: wherever run_app calls create_tree on a filesystem where each
\* directory of the layout is present or absent (none is held by a file):
\* the call leaves every existing entry as it is, creates nothing but
\* missing directories of the layout, each after its parent, and when it
\* returns Ok the full layout exists.
C16_PartialStateRecovery ==
    (AtCreateTree /\ \A t \in Layout(project) : fs[t] \in {"none", "dir"}) =>
        \A d \in Denials :
            LET r == create_tree(fs, project, d)
            IN  /\ \A t \in Nodes : fs[t] # "none" => r.fs[t] = fs[t]
                /\ \A t \in Nodes : r.fs[t] # fs[t] => (t \in Layout(project) /\ r.fs[t] = "dir")
                /\ WellFormed(r.fs)
                /\ r.res = Ok => \A t \in Layout(project) : r.fs[t] = "dir"

\* after clean, part of the layout is left (root and logs) and part is
\* missing (src, an experiment's directory), and create_tree restores it
C16_Witness ==
    /\ pc = "retree"
    /\ fs[<<>>] = "dir" /\ fs[<<"logs">>] = "dir" /\ fs[<<"src">>] = "none"
    /\ \E t \in Layout(project) : Len(t) = 2 /\ fs[t] = "none"
    /\ \A t \in Layout(project) : fs[t] \in {"none", "dir"}
    /\ create_tree(fs, project, {}).res = Ok

\* two experiments of the sequence share a name
HasDuplicates(e) == \E i \in 1..Len(e) : \E j \in 1..Len(e) : i < j /\ e[i] = e[j]

\* the sequence without the later occurrences of a name
RECURSIVE FirstOccurrences(_)
FirstOccurrences(e) ==
    IF e = <<>> THEN <<>>
    ELSE LET front == SubSeq(e, 1, Len(e) - 1)
             last == e[Len(e)]
         IN  IF \E k \in 1..Len(front) : front[k] = last
             THEN FirstOccurrences(front)
             ELSE Append(FirstOccurrences(front), last)

Count(fn) == Cardinality({i \in CallIndexes : calls[i].fn = fn})

CleanSucceeded == \E i \in CallIndexes : calls[i] = Call("clean", Ok)

\* C18: each of fetch, build, clean, execute is invoked at most once and
\* create_tree at most twice; a second create_tree call was made only if
\* clean was requested and returned Ok, and an invocation that has
\* returned after clean returned Ok has made it.
C18_BoundedCalls ==
    /\ \A fn \in StageNames : Count(fn) <= 1
    /\ Count("create_tree") <= 2
    /\ Count("create_tree") = 2 => ("clean" \in flags /\ CleanSucceeded)
    /\ (Returned /\ CleanSucceeded) => Count("create_tree") = 2

\* every stage ran once and create_tree twice
C18_Witness ==
    /\ Returned
    /\ \A fn \in StageNames : Count(fn) = 1
    /\ Count("create_tree") = 2

\* C19: an invocation that can take no further step has ended in one of
\* two ways: run_app returned Ok, every step it attempted succeeded and
\* nothing was reported, or run_app returned an error and safe_wrapper
\* reported exactly that error.
C19_OneOutcome ==
    (~ENABLED Next) =>
        /\ pc = "exit"
        /\ \/ (result = Ok /\ reported = <<>> /\ \A i \in CallIndexes : calls[i].res = Ok)
           \/ (result.kind \in {"MissingArgument", "IOError", "ExternalError", "Parsing"}
               /\ reported = <<result>>)

(***************************************************************************)
(* Row serialization properties, over SpecTsv.                             *)
(***************************************************************************)
Serialized == pc = "tsv_done"

\* the element serializations joined by the separator, from the front
RECURSIVE JoinTabs(_)
JoinTabs(fields) ==
    IF fields = <<>> THEN <<>>
    ELSE IF Len(fields) = 1 THEN fields[1]
    ELSE (fields[1] \o <<Tab>>) \o JoinTabs(Tail(fields))

\* the separators of a line that stand outside a quoted field
RECURSIVE Separators(_, _)
Separators(line, quoted) ==
    IF line = <<>> THEN 0
    ELSE IF Head(line) = Quote THEN Separators(Tail(line), ~quoted)
    ELSE (IF Head(line) = Tab /\ ~quoted THEN 1 ELSE 0) + Separators(Tail(line), quoted)

FieldCount(line) == Separators(line, FALSE) + 1

Bare(v) == v.k = "char" /\ v.s \in {<<Tab>>, <<Quote>>}

RECURSIVE Occurrences(_, _)
Occurrences(s, c) ==
    IF s = <<>> THEN 0
    ELSE (IF Head(s) = c THEN 1 ELSE 0) + Occurrences(Tail(s), c)

\* a quoted field read back: a pair of quotes stands for one quote
RECURSIVE Undouble(_)
Undouble(s) ==
    IF s = <<>> THEN <<>>
    ELSE IF Len(s) >= 2 /\ s[1] = Quote /\ s[2] = Quote
         THEN <<Quote>> \o Undouble(SubSeq(s, 3, Len(s)))
    ELSE <<Head(s)>> \o Undouble(Tail(s))

Unquote(field) == Undouble(SubSeq(field, 2, Len(field) - 1))

OneString == Serialized /\ Len(row) = 1 /\ row[1].k = "str"

\* C14: a text value serializes to itself between two quotes with each of
\* its quotes doubled; no other text serializes to the same field, and
\* the text is read back from the field.
C14_QuotedText ==
    OneString =>
        LET s == row[1].s IN
        /\ Len(tsv) = Len(s) + Occurrences(s, Quote) + 2
        /\ tsv[1] = Quote
        /\ tsv[Len(tsv)] = Quote
        /\ Occurrences(tsv, Quote) = 2 * Occurrences(s, Quote) + 2
        /\ Unquote(tsv) = s
        /\ \A other \in TsvStrings : str_to_tsv_format(other) = tsv => other = s

C14_Witness ==
    /\ OneString
    /\ row[1].s = <<Quote, Tab>>
    /\ tsv = <<Quote, Quote, Quote, Tab, Quote>>
====
